---- MODULE Spec2Model ----
(***************************************************************************)
(* A model of the General Health Patient Education Chatbot (RAG):          *)
(* the chunker, the index builder, the retriever, the extractive answer    *)
(* composer and the Streamlit shell that drives them.                      *)
(*                                                                         *)
(* A Python str is a sequence of one-character strings.  The fixed texts   *)
(* of the answer template are single tokens of such a sequence.            *)
(***************************************************************************)
EXTENDS Integers, Sequences, FiniteSets, TLC

VARIABLES
    \* chunker.chunk_text: its arguments, its locals and where the call is
    text, chunk_size, chunk_overlap, start, chunks, window_starts, chunk_pc,
    \* embeddings.build_embeddings_from_chunks: argument and result
    chunks_by_file, built,
    \* rag_pipeline.answer_question_extractive: the index, the call, the result
    doc_embeddings, metadata, asked, answered,
    \* rag_pipeline._keep_first_sentences: argument and result
    sentence_in, sentence_out,
    \* answer_question_extractive, one pass of its loop over the results:
    \* the result r and the cap, and what the pass appends
    snippet_in, snippet_out,
    \* app.py: the brochure folder, st.session_state, what the last run showed
    brochures_dir, session_state, screen

chunkVars == <<text, chunk_size, chunk_overlap, start, chunks, window_starts, chunk_pc>>
buildVars == <<chunks_by_file, built>>
answerVars == <<doc_embeddings, metadata, asked, answered>>
sentenceVars == <<sentence_in, sentence_out>>
snippetVars == <<snippet_in, snippet_out>>
appVars == <<brochures_dir, session_state, screen>>
vars == <<chunkVars, buildVars, answerVars, sentenceVars, snippetVars, appVars>>
notChunkVars == <<buildVars, answerVars, sentenceVars, snippetVars, appVars>>

----------------------------------------------------------------------------
(* Bounds of the model *)

MaxTextLen == 4
MaxChunkSize == 3
MaxSentenceLen == 6
MaxFiles == 2
MaxChunks == 3
MaxRows == 3
SmallMaxChunkChars == 2
MaxFolderFiles == 2
MaxTurns == 2
MaxSnippetTextLen == 9

\* max_sentences: int = 3
MAX_SENTENCES == 3

\* max_chunk_chars: int = 600
MAX_CHUNK_CHARS == 600

----------------------------------------------------------------------------
(* Python str and list primitives *)

Min(a, b) == IF a < b THEN a ELSE b
Max(a, b) == IF a > b THEN a ELSE b

SeqsUpTo(S, n) == UNION {[1..m -> S] : m \in 0..n}

\* str.isspace() characters that occur in the texts of the model
Whitespace == {" ", "\n", "\r", "\t"}

\* A slice bound as Python normalises it: negative counts from the end,
\* and the result is clamped to 0..len
SliceBound(len, i) == IF i < 0 THEN Max(len + i, 0) ELSE Min(i, len)

\* s[a:b]
PySlice(s, a, b) == SubSeq(s, SliceBound(Len(s), a) + 1, SliceBound(Len(s), b))

RECURSIVE LStrip(_)
LStrip(s) == IF s # <<>> /\ Head(s) \in Whitespace THEN LStrip(Tail(s)) ELSE s

RECURSIVE RStrip(_)
RStrip(s) ==
    IF s # <<>> /\ s[Len(s)] \in Whitespace THEN RStrip(SubSeq(s, 1, Len(s) - 1)) ELSE s

\* str.strip()
Strip(s) == RStrip(LStrip(s))

----------------------------------------------------------------------------
(* chunker.chunk_text *)

ChunkStrideSignSlip(size, overlap) == size + overlap

\* start += chunk_size - chunk_overlap
ChunkStride(size, overlap) == size - overlap

\* end = start + chunk_size; chunk = text[start:end]; chunk.strip()
ChunkWindow(t, from, size) == Strip(PySlice(t, from, from + size))

\* the chunks appended from start = from until start >= len(text)
RECURSIVE ChunkLoop(_, _, _, _)
ChunkLoop(t, size, overlap, from) ==
    IF from < Len(t)
    THEN <<ChunkWindow(t, from, size)>>
             \o ChunkLoop(t, size, overlap, from + ChunkStride(size, overlap))
    ELSE <<>>

\* chunk_text(text, chunk_size, chunk_overlap) as one call
ChunkText(t, size, overlap) ==
    IF t = <<>> THEN [raised |-> FALSE, chunks |-> <<>>]
    ELSE IF overlap >= size THEN [raised |-> TRUE, chunks |-> <<>>]
    ELSE [raised |-> FALSE, chunks |-> ChunkLoop(t, size, overlap, 0)]

\* chunk_documents(texts_by_file, chunk_size, chunk_overlap)
ChunkDocuments(texts_by_file, size, overlap) ==
    LET chunked == [i \in 1..Len(texts_by_file) |->
                       ChunkText(texts_by_file[i].text, size, overlap)]
    IN  [raised |-> \E i \in 1..Len(texts_by_file) : chunked[i].raised,
         chunks_by_file |-> [i \in 1..Len(texts_by_file) |->
                                [filename |-> texts_by_file[i].filename,
                                 chunks |-> chunked[i].chunks]]]

ChunkIdle ==
    /\ text = <<>> /\ chunk_size = 0 /\ chunk_overlap = 0
    /\ start = 0 /\ chunks = <<>> /\ window_starts = <<>> /\ chunk_pc = "idle"

ChunkInputs ==
    /\ text \in SeqsUpTo({"a", " "}, MaxTextLen)
    /\ chunk_size \in 0..MaxChunkSize
    /\ chunk_overlap \in -1..MaxChunkSize
    /\ start = 0 /\ chunks = <<>> /\ window_starts = <<>> /\ chunk_pc = "called"

\* if not text: return []
ChunkEmptyText ==
    /\ chunk_pc = "called"
    /\ text = <<>>
    /\ chunk_pc' = "returned"
    /\ UNCHANGED <<text, chunk_size, chunk_overlap, start, chunks, window_starts>>
    /\ UNCHANGED notChunkVars

\* if chunk_overlap >= chunk_size: raise ValueError
ChunkBadOverlap ==
    /\ chunk_pc = "called"
    /\ text # <<>>
    /\ chunk_overlap >= chunk_size
    /\ chunk_pc' = "raised"
    /\ UNCHANGED <<text, chunk_size, chunk_overlap, start, chunks, window_starts>>
    /\ UNCHANGED notChunkVars

\* chunks = []; start = 0; text_length = len(text)
ChunkEnterLoop ==
    /\ chunk_pc = "called"
    /\ text # <<>>
    /\ chunk_overlap < chunk_size
    /\ chunk_pc' = "loop"
    /\ UNCHANGED <<text, chunk_size, chunk_overlap, start, chunks, window_starts>>
    /\ UNCHANGED notChunkVars

\* one iteration of: while start < text_length
ChunkLoopBody ==
    /\ chunk_pc = "loop"
    /\ start < Len(text)
    /\ chunks' = Append(chunks, ChunkWindow(text, start, chunk_size))
    /\ window_starts' = Append(window_starts, start)
    /\ start' = start + ChunkStride(chunk_size, chunk_overlap)
    /\ UNCHANGED <<text, chunk_size, chunk_overlap, chunk_pc>>
    /\ UNCHANGED notChunkVars

\* the loop condition fails: return chunks
ChunkReturn ==
    /\ chunk_pc = "loop"
    /\ ~(start < Len(text))
    /\ chunk_pc' = "returned"
    /\ UNCHANGED <<text, chunk_size, chunk_overlap, start, chunks, window_starts>>
    /\ UNCHANGED notChunkVars

NextChunk ==
    \/ ChunkEmptyText
    \/ ChunkBadOverlap
    \/ ChunkEnterLoop
    \/ ChunkLoopBody
    \/ ChunkReturn

----------------------------------------------------------------------------
(* rag_pipeline._clean_text and rag_pipeline._keep_first_sentences *)

\* str.replace(old, new) for a single character old
ReplaceChar(s, old, new) == [i \in 1..Len(s) |-> IF s[i] = old THEN new ELSE s[i]]

\* "  " in s
HasDoubleSpace(s) == \E i \in 1..(Len(s) - 1) : s[i] = " " /\ s[i + 1] = " "

\* s.replace("  ", " "): left to right, occurrences do not overlap
RECURSIVE ReplaceDoubleSpace(_)
ReplaceDoubleSpace(s) ==
    IF Len(s) < 2 THEN s
    ELSE IF s[1] = " " /\ s[2] = " "
         THEN <<" ">> \o ReplaceDoubleSpace(SubSeq(s, 3, Len(s)))
         ELSE <<s[1]>> \o ReplaceDoubleSpace(Tail(s))

\* while "  " in text: text = text.replace("  ", " ")
RECURSIVE CollapseSpaces(_)
CollapseSpaces(s) == IF HasDoubleSpace(s) THEN CollapseSpaces(ReplaceDoubleSpace(s)) ELSE s

\* _clean_text(text)
CleanText(t) == Strip(CollapseSpaces(ReplaceChar(ReplaceChar(t, "\r", " "), "\n", " ")))

\* the places where ". " occurs in s
DotSpaceAt(s) == {i \in 1..(Len(s) - 1) : s[i] = "." /\ s[i + 1] = " "}

\* s.split(". ")
RECURSIVE SplitDotSpace(_)
SplitDotSpace(s) ==
    IF DotSpaceAt(s) = {} THEN <<s>>
    ELSE LET i == CHOOSE j \in DotSpaceAt(s) : \A h \in DotSpaceAt(s) : j <= h
         IN  <<SubSeq(s, 1, i - 1)>> \o SplitDotSpace(SubSeq(s, i + 2, Len(s)))

\* ". ".join(parts)
RECURSIVE JoinDotSpace(_)
JoinDotSpace(parts) ==
    IF parts = <<>> THEN <<>>
    ELSE IF Len(parts) = 1 THEN parts[1]
         ELSE parts[1] \o <<".", " ">> \o JoinDotSpace(Tail(parts))

\* s.endswith(".")
EndsWithDot(s) == s # <<>> /\ s[Len(s)] = "."

KeepFirstSentencesOneMore(t, max_sentences) ==
    LET cleaned == CleanText(t)
        parts == SplitDotSpace(cleaned)
        kept == Strip(JoinDotSpace(PySlice(parts, 0, max_sentences + 1)))
    IN  IF Len(parts) <= max_sentences THEN cleaned
        ELSE IF EndsWithDot(kept) THEN kept ELSE kept \o <<".">>

KeepFirstSentencesAlwaysDot(t, max_sentences) ==
    LET cleaned == CleanText(t)
        parts == SplitDotSpace(cleaned)
        kept == IF Len(parts) <= max_sentences THEN cleaned
                ELSE Strip(JoinDotSpace(PySlice(parts, 0, max_sentences)))
    IN  IF EndsWithDot(kept) THEN kept ELSE kept \o <<".">>

\* _keep_first_sentences(text, max_sentences)
KeepFirstSentences(t, max_sentences) ==
    LET cleaned == CleanText(t)
        parts == SplitDotSpace(cleaned)
        kept == Strip(JoinDotSpace(PySlice(parts, 0, max_sentences)))
    IN  IF Len(parts) <= max_sentences THEN cleaned
        ELSE IF EndsWithDot(kept) THEN kept ELSE kept \o <<".">>

SentenceIdle ==
    /\ sentence_in = [text |-> <<>>, max_sentences |-> 0]
    /\ sentence_out = [done |-> FALSE, value |-> <<>>]

SentenceInputs ==
    /\ sentence_in \in [text : SeqsUpTo({"a", ".", " ", "\n"}, MaxSentenceLen),
                        max_sentences : 0..MAX_SENTENCES]
    /\ sentence_out = [done |-> FALSE, value |-> <<>>]

\* a call of _keep_first_sentences
KeepFirstSentencesCall ==
    /\ ~sentence_out.done
    /\ sentence_out' = [done |-> TRUE,
                        value |-> KeepFirstSentences(sentence_in.text,
                                                     sentence_in.max_sentences)]
    /\ UNCHANGED <<sentence_in, chunkVars, buildVars, answerVars, snippetVars, appVars>>

----------------------------------------------------------------------------
(* embeddings.get_local_embeddings and embeddings.build_embeddings_from_chunks *)

\* The unit vectors of the embedding space of the model
UnitVecs == << <<1, 0>>, <<0, 1>>, <<-1, 0>>, <<0, -1>> >>

\* How many times c occurs in s
Count(s, c) == Cardinality({i \in 1..Len(s) : s[i] = c})

\* SentenceTransformer.encode(text, normalize_embeddings=True): a fixed
\* function from texts to unit vectors
EmbedText(t) == UnitVecs[((Len(t) + Count(t, "a") + 3 * Count(t, ".")) % 4) + 1]

\* get_local_embeddings(texts)
GetLocalEmbeddings(texts) ==
    IF texts = <<>> THEN [vectors |-> <<>>, encode_calls |-> 0]
    ELSE [vectors |-> [i \in 1..Len(texts) |-> EmbedText(texts[i])], encode_calls |-> 1]

KeepChunkNonEmpty(chunk) == chunk # <<>>

\* not (not chunk.strip())
KeepChunk(chunk) == Strip(chunk) # <<>>

\* the positions of the chunks of one file that are kept, in order
KeptPositions(file_chunks) ==
    SelectSeq([i \in 1..Len(file_chunks) |-> i], LAMBDA i : KeepChunk(file_chunks[i]))

\* {"filename": filename, "chunk_index": idx, "text": chunk}
MetadataEntry(filename, file_chunks, kept, n) ==
    [filename |-> filename, chunk_index |-> kept[n] - 1, text |-> file_chunks[kept[n]]]

\* all_texts after the loops over files and chunks
RECURSIVE AllTexts(_)
AllTexts(by_file) ==
    IF by_file = <<>> THEN <<>>
    ELSE LET file_chunks == Head(by_file).chunks
             kept == KeptPositions(file_chunks)
         IN  [n \in 1..Len(kept) |-> file_chunks[kept[n]]] \o AllTexts(Tail(by_file))

\* metadata after the loops over files and chunks
RECURSIVE AllMetadata(_)
AllMetadata(by_file) ==
    IF by_file = <<>> THEN <<>>
    ELSE LET file_chunks == Head(by_file).chunks
             kept == KeptPositions(file_chunks)
         IN  [n \in 1..Len(kept) |->
                 MetadataEntry(Head(by_file).filename, file_chunks, kept, n)]
             \o AllMetadata(Tail(by_file))

\* build_embeddings_from_chunks(chunks_by_file)
BuildEmbeddingsFromChunks(by_file) ==
    LET all_texts == AllTexts(by_file)
        meta == AllMetadata(by_file)
        embedded == GetLocalEmbeddings(all_texts)
    IN  IF all_texts = <<>>
        THEN [embeddings |-> <<>>, metadata |-> <<>>, embedded_texts |-> <<>>,
              encode_calls |-> 0]
        ELSE [embeddings |-> embedded.vectors, metadata |-> meta,
              embedded_texts |-> all_texts, encode_calls |-> embedded.encode_calls]

NotBuilt ==
    [done |-> FALSE, embeddings |-> <<>>, metadata |-> <<>>, embedded_texts |-> <<>>,
     encode_calls |-> 0]

\* File names, with and without a directory part
Filenames == {<<"a">>, <<"c">>, <<"d", "/", "b">>}

\* The chunk texts the index builder is given
ChunkTexts == {<<>>, <<" ">>, <<"a">>, <<"a", ".", " ", "a">>}

\* dict keys are distinct and keep their insertion order
FilenameOrders ==
    {names \in SeqsUpTo(Filenames, MaxFiles) :
        \A i, j \in 1..Len(names) : i # j => names[i] # names[j]}

\* lens[1] + ... + lens[n]
RECURSIVE SumTo(_, _)
SumTo(lens, n) == IF n = 0 THEN 0 ELSE lens[n] + SumTo(lens, n - 1)

\* the mapping whose files, in this order, share out the chunks of flat
MappingOf(names, flat, lens) ==
    [i \in 1..Len(names) |->
        [filename |-> names[i],
         chunks |-> SubSeq(flat, SumTo(lens, i - 1) + 1, SumTo(lens, i))]]

BuildIdle == chunks_by_file = <<>> /\ built = NotBuilt

\* every mapping of at most MaxFiles files holding at most MaxChunks chunks
BuildInputs ==
    /\ \E names \in FilenameOrders, flat \in SeqsUpTo(ChunkTexts, MaxChunks) :
          \E lens \in [1..Len(names) -> 0..Len(flat)] :
             /\ SumTo(lens, Len(names)) = Len(flat)
             /\ chunks_by_file = MappingOf(names, flat, lens)
    /\ built = NotBuilt

\* a call of build_embeddings_from_chunks
BuildEmbeddingsCall ==
    /\ ~built.done
    /\ built' = [done |-> TRUE] @@ BuildEmbeddingsFromChunks(chunks_by_file)
    /\ UNCHANGED <<chunks_by_file, chunkVars, answerVars, sentenceVars, snippetVars, appVars>>

----------------------------------------------------------------------------
(* retriever.embed_query, cosine_similarity_matrix, retrieve_top_k *)

\* doc_embeddings.size of a matrix held as a sequence of rows
MatrixSize(m) == IF m = <<>> THEN 0 ELSE Len(m) * Len(m[1])

RECURSIVE Dot(_, _)
Dot(u, v) == IF u = <<>> \/ v = <<>> THEN 0 ELSE Head(u) * Head(v) + Dot(Tail(u), Tail(v))

\* cosine_similarity_matrix(query_vec, doc_embeddings)
CosineSimilarityMatrix(query_vec, m) ==
    IF MatrixSize(m) = 0 THEN <<>> ELSE [i \in 1..Len(m) |-> Dot(m[i], query_vec)]

\* The orders of the rows 0..n-1
RowOrders(n) == {p \in [1..n -> 0..(n - 1)] : \A i, j \in 1..n : i # j => p[i] # p[j]}

\* np.argsort(-sims): the default kind is quicksort, which is not stable, so
\* rows of equal score come in any order
ArgsortDescending(sims) ==
    {p \in RowOrders(Len(sims)) :
        \A i, j \in 1..Len(sims) : i < j => (0 - sims[p[i] + 1]) <= (0 - sims[p[j] + 1])}

TopIndicesOneMore(order, k) == PySlice(order, 0, k + 1)

\* np.argsort(-sims)[:k]
TopIndices(order, k) == PySlice(order, 0, k)

EmptyIndexBothEmpty(m, meta) == MatrixSize(m) = 0 /\ meta = <<>>

\* doc_embeddings.size == 0 or not metadata
EmptyIndex(m, meta) == MatrixSize(m) = 0 \/ meta = <<>>

\* retrieve_top_k(query, doc_embeddings, metadata, k), where order is what
\* np.argsort returned
RetrieveTopK(query, m, meta, k, order) ==
    IF EmptyIndex(m, meta)
    THEN [raised |-> FALSE, results |-> <<>>, top_indices |-> <<>>, embed_query_calls |-> 0]
    ELSE LET query_vec == EmbedText(query)
             sims == CosineSimilarityMatrix(query_vec, m)
             top == TopIndices(order, Min(k, Len(sims)))
         IN  IF \E n \in 1..Len(top) : top[n] >= Len(meta)
             THEN \* metadata[idx]: IndexError
                  [raised |-> TRUE, results |-> <<>>, top_indices |-> top,
                   embed_query_calls |-> 1]
             ELSE [raised |-> FALSE,
                   results |-> [n \in 1..Len(top) |->
                                   [score |-> sims[top[n] + 1],
                                    filename |-> meta[top[n] + 1].filename,
                                    chunk_index |-> meta[top[n] + 1].chunk_index,
                                    text |-> meta[top[n] + 1].text]],
                   top_indices |-> top,
                   embed_query_calls |-> 1]

\* The orders np.argsort can return for this call
SortOrders(query, m) == ArgsortDescending(CosineSimilarityMatrix(EmbedText(query), m))

----------------------------------------------------------------------------
(* rag_pipeline.answer_question_extractive *)

NoInformationAnswer ==
    <<"I could not find any relevant information about this in the loaded documents. Please check that the PDFs contain information about this topic.">>

IntroLine == <<"Here is what the documents say about your question:">>

DisclaimerLine ==
    <<"This summary is built directly from the brochures. It is general information and does **not** replace the opinion of a healthcare professional.">>

\* the places where "/" occurs in s
SlashAt(s) == {i \in 1..Len(s) : s[i] = "/"}

\* os.path.basename(path)
Basename(path) ==
    IF SlashAt(path) = {} THEN path
    ELSE LET i == CHOOSE j \in SlashAt(path) : \A h \in SlashAt(path) : j >= h
         IN  SubSeq(path, i + 1, Len(path))

\* "\n".join(lines)
RECURSIVE JoinLines(_)
JoinLines(lines) ==
    IF lines = <<>> THEN <<>>
    ELSE IF Len(lines) = 1 THEN lines[1]
         ELSE lines[1] \o <<"\n">> \o JoinLines(Tail(lines))

\* raw_text = r["text"][:max_chunk_chars]
\* short_snippet = _keep_first_sentences(raw_text, max_sentences=3)
ShortSnippet(r, max_chunk_chars) ==
    KeepFirstSentences(PySlice(r.text, 0, max_chunk_chars), MAX_SENTENCES)

\* f"- From **{filename}**: {short_snippet}"
BulletPoint(r, max_chunk_chars) ==
    <<"- From **">> \o Basename(r.filename) \o <<"**: ">> \o ShortSnippet(r, max_chunk_chars)

SourceEntryFullPath(r, max_chunk_chars) ==
    [filename |-> r.filename, score |-> r.score, chunk_index |-> r.chunk_index,
     snippet |-> ShortSnippet(r, max_chunk_chars)]

\* the entry appended to sources_list
SourceEntry(r, max_chunk_chars) ==
    [filename |-> Basename(r.filename), score |-> r.score, chunk_index |-> r.chunk_index,
     snippet |-> ShortSnippet(r, max_chunk_chars)]

\* answer_question_extractive(query, doc_embeddings, metadata, k, max_chunk_chars)
AnswerQuestionExtractive(query, m, meta, k, max_chunk_chars, order) ==
    LET retrieved == RetrieveTopK(query, m, meta, k, order)
        results == retrieved.results
        bullet_points == [n \in 1..Len(results) |-> BulletPoint(results[n], max_chunk_chars)]
        sources_list == [n \in 1..Len(results) |-> SourceEntry(results[n], max_chunk_chars)]
        explanation_lines == <<IntroLine, <<>>>> \o bullet_points \o <<<<>>, DisclaimerLine>>
        trace == [results |-> results, top_indices |-> retrieved.top_indices,
                  embed_query_calls |-> retrieved.embed_query_calls]
    IN  IF retrieved.raised
        THEN [raised |-> TRUE, question |-> query, answer |-> <<>>, sources |-> <<>>]
             @@ trace
        ELSE IF results = <<>>
        THEN [raised |-> FALSE, question |-> query, answer |-> NoInformationAnswer,
              sources |-> <<>>] @@ trace
        ELSE [raised |-> FALSE, question |-> query, answer |-> JoinLines(explanation_lines),
              sources |-> sources_list] @@ trace

\* The rows an index of the model is made of
DocVecs == {<<1, 0>>, <<0, 1>>, <<-1, 0>>}

\* The questions asked: EmbedText maps them to <<0, 1>> and <<1, 0>>
Queries == {<<"q">>, <<"a", "a">>}

\* The chunks an index of the model describes, in file-then-position order;
\* the first chunks of the two files hold the same text
MetadataPool ==
    <<[filename |-> <<"a">>, chunk_index |-> 0, text |-> <<"a", "\n", "a">>],
      [filename |-> <<"a">>, chunk_index |-> 1,
       text |-> <<"a", ".", " ", "a", ".", " ", "a", ".", " ", "a">>],
      [filename |-> <<"d", "/", "b">>, chunk_index |-> 0, text |-> <<"a", "\n", "a">>],
      [filename |-> <<"d", "/", "b">>, chunk_index |-> 2,
       text |-> <<"a", " ", " ", "a", ".">>]>>

\* The metadata lists of at most n entries: chunks of the pool, each at most
\* once, in the order of the pool
MetadataLists(n) ==
    {[i \in 1..Len(picked) |-> MetadataPool[picked[i]]] :
        picked \in {p \in SeqsUpTo(1..Len(MetadataPool), n) :
                       \A i, j \in 1..Len(p) : i < j => p[i] < p[j]}}

NotAsked == [query |-> <<>>, k |-> 0, max_chunk_chars |-> 0]

NotAnswered ==
    [done |-> FALSE, raised |-> FALSE, question |-> <<>>, answer |-> <<>>, sources |-> <<>>,
     results |-> <<>>, top_indices |-> <<>>, embed_query_calls |-> 0]

AnswerIdle ==
    /\ doc_embeddings = <<>> /\ metadata = <<>>
    /\ asked = NotAsked /\ answered = NotAnswered

AnswerInputs ==
    /\ doc_embeddings \in SeqsUpTo(DocVecs, MaxRows) \cup {<< <<>> >>}
    /\ metadata \in MetadataLists(MaxRows)
    /\ \/ Len(metadata) = Len(doc_embeddings)
       \/ metadata = <<>>
       \/ MatrixSize(doc_embeddings) = 0
    /\ asked = NotAsked /\ answered = NotAnswered

\* a call of answer_question_extractive
AnswerQuestionCall ==
    /\ ~answered.done
    /\ \E query \in Queries, k \in (0 - MaxRows)..(MaxRows + 1),
          max_chunk_chars \in {0, SmallMaxChunkChars, MAX_CHUNK_CHARS} :
          \E order \in SortOrders(query, doc_embeddings) :
             /\ asked' = [query |-> query, k |-> k, max_chunk_chars |-> max_chunk_chars]
             /\ answered' = [done |-> TRUE] @@
                    AnswerQuestionExtractive(query, doc_embeddings, metadata, k,
                                             max_chunk_chars, order)
    /\ UNCHANGED <<doc_embeddings, metadata, chunkVars, buildVars, sentenceVars, snippetVars, appVars>>

\* No pass of the loop is under way
NoPass == [done |-> FALSE, bullet |-> <<>>, source |-> <<>>]

SnippetIdle ==
    /\ snippet_in = [r |-> MetadataPool[1] @@ [score |-> 0], max_chunk_chars |-> 0]
    /\ snippet_out = NoPass

\* One retrieved chunk of every text of the bounds, under every cap of the
\* bounds; a negative cap is an argument the code accepts
SnippetInputs ==
    /\ snippet_in \in
          [r : [filename : {<<"d", "/", "b">>}, chunk_index : {0}, score : {1},
                text : SeqsUpTo({"a", ".", " "}, MaxSnippetTextLen)],
           max_chunk_chars : (0 - 1)..MaxSnippetTextLen]
    /\ snippet_out = NoPass

\* one pass of the loop "for r in results" of answer_question_extractive
SnippetPass ==
    /\ ~snippet_out.done
    /\ snippet_out' = [done |-> TRUE,
                       bullet |-> BulletPoint(snippet_in.r, snippet_in.max_chunk_chars),
                       source |-> SourceEntry(snippet_in.r, snippet_in.max_chunk_chars)]
    /\ UNCHANGED <<snippet_in, chunkVars, buildVars, answerVars, sentenceVars, appVars>>

----------------------------------------------------------------------------
(* ingestion.py: extraction of the text of the brochures *)

\* str.lower() on the characters of the file names of the model
LowerChar(c) ==
    CASE c = "T" -> "t"
      [] c = "X" -> "x"
      [] c = "P" -> "p"
      [] c = "D" -> "d"
      [] c = "F" -> "f"
      [] OTHER -> c

Lower(s) == [i \in 1..Len(s) |-> LowerChar(s[i])]

\* s.endswith(suffix)
EndsWith(s, suffix) ==
    Len(s) >= Len(suffix) /\ SubSeq(s, Len(s) - Len(suffix) + 1, Len(s)) = suffix

\* the places where "." occurs in s
DotAt(s) == {i \in 1..Len(s) : s[i] = "."}

\* filename.lower().split(".")[-1]
Suffix(filename) ==
    LET low == Lower(filename)
    IN  IF DotAt(low) = {} THEN low
        ELSE LET i == CHOOSE j \in DotAt(low) : \A h \in DotAt(low) : j >= h
             IN  SubSeq(low, i + 1, Len(low))

\* extract_text_from_pdf(file_bytes): PyPDF2.PdfReader raises on a file it
\* cannot parse; a page without text gives ""
ExtractTextFromPdf(f) ==
    IF f.pdf_ok THEN [raised |-> FALSE, text |-> JoinLines(f.pages)]
    ELSE [raised |-> TRUE, text |-> <<>>]

\* extract_text_from_txt(file_bytes)
ExtractTextFromTxt(f) == [raised |-> FALSE, text |-> f.content]

\* the body of the loop of extract_texts_from_files for one file
ExtractOne(f) ==
    IF Suffix(f.name) = <<"p", "d", "f">> THEN ExtractTextFromPdf(f)
    ELSE IF Suffix(f.name) = <<"t", "x", "t">> THEN ExtractTextFromTxt(f)
    ELSE [raised |-> FALSE, text |-> <<>>]

\* extract_texts_from_files(files): an exception of one file ends the loop
RECURSIVE ExtractTextsFromFiles(_)
ExtractTextsFromFiles(files) ==
    IF files = <<>> THEN [raised |-> FALSE, texts |-> <<>>]
    ELSE LET one == ExtractOne(Head(files))
             rest == ExtractTextsFromFiles(Tail(files))
         IN  IF one.raised \/ rest.raised THEN [raised |-> TRUE, texts |-> <<>>]
             ELSE [raised |-> FALSE,
                   texts |-> <<[filename |-> Head(files).name, text |-> one.text]>>
                                 \o rest.texts]

----------------------------------------------------------------------------
(* app.py: the Streamlit shell *)

\* chunk_size=800
CHUNK_SIZE == 800

\* chunk_overlap=200
CHUNK_OVERLAP == 200

\* k=3
TOP_K == 3

\* st.session_state after the defaults are set (None is written <<>>)
DefaultSession ==
    [index_ready |-> FALSE, embeddings |-> <<>>, metadata |-> <<>>, chat_history |-> <<>>]

\* BROCHURES_DIR
BrochuresDirPath == <<"d">>

\* os.path.join(BROCHURES_DIR, fname)
PathOf(fname) == BrochuresDirPath \o <<"/">> \o fname

\* f.lower().endswith((".pdf", ".txt"))
IsBrochure(fname) ==
    \/ EndsWith(Lower(fname), <<".", "p", "d", "f">>)
    \/ EndsWith(Lower(fname), <<".", "t", "x", "t">>)

\* the files open(path, "rb") gave, named by their path
FileObjects(dir) ==
    LET opened == SelectSeq(dir.files, LAMBDA f : IsBrochure(f.name) /\ f.opens)
    IN  [i \in 1..Len(opened) |-> [opened[i] EXCEPT !.name = PathOf(opened[i].name)]]

\* st.session_state["embeddings"] = embeddings, ["metadata"] = metadata with
\* the filenames reduced to their base name, ["index_ready"] = True
StoreIndex(index, session) ==
    [raised |-> FALSE, ok |-> TRUE,
     session |-> [session EXCEPT
         !.embeddings = index.embeddings,
         !.metadata = [i \in 1..Len(index.metadata) |->
                          [index.metadata[i] EXCEPT
                              !.filename = Basename(index.metadata[i].filename)]],
         !.index_ready = TRUE]]

\* build_index, step 3: build_embeddings_from_chunks(chunks_by_file)
BuildFromChunks(chunked, session) ==
    IF chunked.raised THEN [raised |-> TRUE, ok |-> FALSE, session |-> session]
    ELSE StoreIndex(BuildEmbeddingsFromChunks(chunked.chunks_by_file), session)

\* build_index, step 2: chunk_documents(texts_by_file, 800, 200)
BuildFromTexts(extracted, session) ==
    IF extracted.raised THEN [raised |-> TRUE, ok |-> FALSE, session |-> session]
    ELSE BuildFromChunks(ChunkDocuments(extracted.texts, CHUNK_SIZE, CHUNK_OVERLAP), session)

\* build_index, step 1: extract_texts_from_files(file_objects)
BuildFromFiles(file_objects, session) ==
    IF file_objects = <<>> THEN [raised |-> FALSE, ok |-> FALSE, session |-> session]
    ELSE BuildFromTexts(ExtractTextsFromFiles(file_objects), session)

\* build_index(): raised when an exception left it, ok its return value
BuildIndex(dir, session) ==
    IF ~dir.exists THEN [raised |-> FALSE, ok |-> FALSE, session |-> session]
    ELSE IF ~\E i \in 1..Len(dir.files) : IsBrochure(dir.files[i].name)
    THEN [raised |-> FALSE, ok |-> FALSE, session |-> session]
    ELSE BuildFromFiles(FileObjects(dir), session)

\* if not st.session_state["index_ready"]: if os.path.isdir(BROCHURES_DIR): build_index()
BuildOnLoad(dir, session) ==
    IF ~session.index_ready /\ dir.exists THEN BuildIndex(dir, session)
    ELSE [raised |-> FALSE, ok |-> FALSE, session |-> session]

\* The question of a run: asked is FALSE for a run without st.chat_input text
NoQuestion == [asked |-> FALSE, text |-> <<>>]

\* st.write(result["answer"]) and the append to chat_history
ShowAnswer(session, question, result) ==
    IF result.raised THEN [screen |-> "exception", session |-> session]
    ELSE [screen |-> "chat",
          session |-> [session EXCEPT !.chat_history =
                          Append(@, [question |-> question.text,
                                     answer |-> result.answer,
                                     sources |-> result.sources])]]

\* The main chat interface of the script, after the build on load
MainChat(build, question, order) ==
    IF build.raised THEN [screen |-> "exception", session |-> build.session]
    ELSE IF ~build.session.index_ready THEN [screen |-> "warning", session |-> build.session]
    ELSE IF ~question.asked THEN [screen |-> "chat", session |-> build.session]
    ELSE ShowAnswer(build.session, question,
                    AnswerQuestionExtractive(question.text, build.session.embeddings,
                                             build.session.metadata, TOP_K, MAX_CHUNK_CHARS,
                                             order))

\* One run of the script app.py from top to bottom
RunScript(dir, session, question, order) ==
    MainChat(BuildOnLoad(dir, session), question, order)

\* The files a brochure folder of the model can hold
FilePool ==
    {[name |-> <<"a", ".", "t", "x", "t">>, opens |-> TRUE, pdf_ok |-> FALSE,
      pages |-> <<>>, content |-> <<"a", ".", " ", "a">>],
     [name |-> <<"e", ".", "t", "x", "t">>, opens |-> TRUE, pdf_ok |-> FALSE,
      pages |-> <<>>, content |-> <<>>],
     [name |-> <<"w", ".", "T", "X", "T">>, opens |-> TRUE, pdf_ok |-> FALSE,
      pages |-> <<>>, content |-> <<" ", "\n">>],
     [name |-> <<"u", ".", "t", "x", "t">>, opens |-> FALSE, pdf_ok |-> FALSE,
      pages |-> <<>>, content |-> <<"a">>],
     [name |-> <<"c", ".", "p", "d", "f">>, opens |-> TRUE, pdf_ok |-> FALSE,
      pages |-> <<>>, content |-> <<>>],
     [name |-> <<"p", ".", "p", "d", "f">>, opens |-> TRUE, pdf_ok |-> TRUE,
      pages |-> <<<<"a">>, <<>>>>, content |-> <<>>],
     [name |-> <<"n", ".", "m", "d">>, opens |-> TRUE, pdf_ok |-> FALSE,
      pages |-> <<>>, content |-> <<"a">>]}

AppIdle ==
    /\ brochures_dir = [exists |-> FALSE, files |-> <<>>]
    /\ session_state = DefaultSession
    /\ screen = "none"

AppInputs ==
    /\ brochures_dir \in [exists : BOOLEAN, files : SeqsUpTo(FilePool, MaxFolderFiles)]
    /\ \A i, j \in 1..Len(brochures_dir.files) :
          i # j => brochures_dir.files[i].name # brochures_dir.files[j].name
    /\ ~brochures_dir.exists => brochures_dir.files = <<>>
    /\ session_state = DefaultSession
    /\ screen = "none"

\* A browser opens the page: a new session, and the script runs
PageLoad ==
    /\ LET run == RunScript(brochures_dir, DefaultSession, NoQuestion, <<>>)
       IN  session_state' = run.session /\ screen' = run.screen
    /\ UNCHANGED <<brochures_dir, chunkVars, buildVars, answerVars, sentenceVars, snippetVars>>

\* The script runs again in the same session, without a question
Rerun ==
    /\ screen # "none"
    /\ LET run == RunScript(brochures_dir, session_state, NoQuestion, <<>>)
       IN  session_state' = run.session /\ screen' = run.screen
    /\ UNCHANGED <<brochures_dir, chunkVars, buildVars, answerVars, sentenceVars, snippetVars>>

\* The user types a question into st.chat_input, which the last run showed
AskQuestion ==
    /\ screen = "chat"
    /\ Len(session_state.chat_history) < MaxTurns
    /\ \E query \in Queries :
          \E order \in SortOrders(query, session_state.embeddings) :
             LET run == RunScript(brochures_dir, session_state,
                                  [asked |-> TRUE, text |-> query], order)
             IN  session_state' = run.session /\ screen' = run.screen
    /\ UNCHANGED <<brochures_dir, chunkVars, buildVars, answerVars, sentenceVars, snippetVars>>

----------------------------------------------------------------------------
(* Specifications *)

\* chunk_text on every text and configuration of the bounds
InitChunk == ChunkInputs /\ BuildIdle /\ AnswerIdle /\ SentenceIdle /\ SnippetIdle /\ AppIdle
SpecChunk == InitChunk /\ [][NextChunk]_vars

\* build_embeddings_from_chunks on every mapping of the bounds
InitBuild == ChunkIdle /\ BuildInputs /\ AnswerIdle /\ SentenceIdle /\ SnippetIdle /\ AppIdle
NextBuild == BuildEmbeddingsCall
SpecBuild == InitBuild /\ [][NextBuild]_vars

\* answer_question_extractive on every index and question of the bounds
InitAnswer == ChunkIdle /\ BuildIdle /\ AnswerInputs /\ SentenceIdle /\ SnippetIdle /\ AppIdle
NextAnswer == AnswerQuestionCall
SpecAnswer == InitAnswer /\ [][NextAnswer]_vars

\* _keep_first_sentences on every text of the bounds
InitSentences == ChunkIdle /\ BuildIdle /\ AnswerIdle /\ SentenceInputs /\ SnippetIdle /\ AppIdle
NextSentences == KeepFirstSentencesCall
SpecSentences == InitSentences /\ [][NextSentences]_vars

\* one pass of the loop of answer_question_extractive on every chunk text and
\* cap of the bounds
InitSnippet == ChunkIdle /\ BuildIdle /\ AnswerIdle /\ SentenceIdle /\ SnippetInputs /\ AppIdle
NextSnippet == SnippetPass
SpecSnippet == InitSnippet /\ [][NextSnippet]_vars

\* The shell: page loads, reruns and questions over a brochure folder
Init == ChunkIdle /\ BuildIdle /\ AnswerIdle /\ SentenceIdle /\ SnippetIdle /\ AppInputs
Next ==
    \/ PageLoad
    \/ Rerun
    \/ AskQuestion
Spec == Init /\ [][Next]_vars

----------------------------------------------------------------------------
(* Claims about the snippet of one retrieved chunk, under SpecSnippet *)

\* C11: for every chunk text and every max_chunk_chars >= 0 the snippet put
\* in the sources entry has at most max_chunk_chars characters, also when
\* sentence trimming appended a period, and the bullet of the answer carries
\* that same snippet after its "- From **{filename}**: " head.
C11_SnippetWithinCap ==
    (snippet_out.done /\ snippet_in.max_chunk_chars >= 0) =>
        /\ Len(snippet_out.source.snippet) <= snippet_in.max_chunk_chars
        /\ Len(snippet_out.source.snippet) <= Len(snippet_in.r.text)
        /\ snippet_out.bullet = <<"- From **", "b", "**: ">> \o snippet_out.source.snippet

\* C11 witness: a chunk text longer than the cap, whose capped and cleaned
\* text has more than three parts, the kept ones not ending with a period, so
\* that the snippet is the kept text with a period appended
C11_Witness ==
    LET cap == snippet_in.max_chunk_chars
        raw_text == SubSeq(snippet_in.r.text, 1, cap)
        parts == SplitDotSpace(CleanText(raw_text))
        kept == Strip(JoinDotSpace(SubSeq(parts, 1, MAX_SENTENCES)))
    IN  /\ snippet_out.done
        /\ cap >= 0
        /\ Len(snippet_in.r.text) > cap
        /\ Len(parts) > MAX_SENTENCES
        /\ ~EndsWithDot(kept)
        /\ snippet_out.source.snippet = kept \o <<".">>

----------------------------------------------------------------------------
(* Claims about chunk_text, under SpecChunk *)

\* C1: a call with chunk_overlap >= chunk_size and chunk_size > 0 fails with
\* ValueError whatever the text is, the empty text included: it never returns
\* a chunk list.
C1_BadOverlapAlwaysRaises ==
    (chunk_size > 0 /\ chunk_overlap >= chunk_size) => chunk_pc \in {"called", "raised"}

\* C2: for chunk_size > 0 and 0 <= chunk_overlap < chunk_size the windows
\* [start, start + chunk_size) taken at start = 0, step, 2*step, ... cover
\* every character position of the text, each chunk is the trimmed window,
\* and the loop stops at the first start >= len(text).
C2_WindowsCoverText ==
    (chunk_pc = "returned" /\ chunk_size > 0 /\ 0 <= chunk_overlap
        /\ chunk_overlap < chunk_size) =>
        LET step == chunk_size - chunk_overlap
            n_windows == Len(window_starts)
        IN  /\ Len(chunks) = n_windows
            /\ \A n \in 1..n_windows :
                  /\ window_starts[n] = (n - 1) * step
                  /\ window_starts[n] < Len(text)
                  /\ chunks[n] = Strip(SubSeq(text, window_starts[n] + 1,
                                              Min(window_starts[n] + chunk_size, Len(text))))
            /\ \A pos \in 0..(Len(text) - 1) :
                  \E n \in 1..n_windows :
                     window_starts[n] <= pos /\ pos < window_starts[n] + chunk_size
            /\ start = n_windows * step
            /\ start >= Len(text)
            /\ (text # <<>> => start - step < Len(text))

\* C2 witness: a returned call with a real overlap and several windows, one of
\* them trimmed
C2_Witness ==
    /\ chunk_pc = "returned" /\ chunk_size > 0 /\ chunk_overlap > 0
    /\ chunk_overlap < chunk_size
    /\ Len(window_starts) >= 3
    /\ \E n \in 1..Len(chunks) :
          Len(chunks[n]) < Min(chunk_size, Len(text) - window_starts[n])

----------------------------------------------------------------------------
(* Claims about _keep_first_sentences, under SpecSentences *)

\* s is the start of t
IsPrefix(s, t) == Len(s) <= Len(t) /\ SubSeq(t, 1, Len(s)) = s

\* C10 as stated: for a non-empty cleaned text and max_sentences >= 1 the
\* result ends with a period and holds at most max_sentences sentences; with
\* more than max_sentences parts it is the first max_sentences parts joined by
\* ". " with a period appended if missing, and otherwise it is the whole
\* cleaned text, likewise ending with a period.
C10_AlwaysEndsWithPeriod ==
    LET cleaned == CleanText(sentence_in.text)
        parts == SplitDotSpace(cleaned)
        out == sentence_out.value
    IN  (sentence_out.done /\ cleaned # <<>> /\ sentence_in.max_sentences >= 1) =>
            /\ EndsWithDot(out)
            /\ Len(SplitDotSpace(out)) <= sentence_in.max_sentences
            /\ Len(parts) <= sentence_in.max_sentences =>
                  out \in {cleaned, cleaned \o <<".">>}

\* C10 as amended: the result holds at most max_sentences parts; with more
\* than max_sentences parts in the cleaned text it is the first max_sentences
\* parts joined by ". ", stripped, with a period appended if missing, so it
\* ends with a period and is, up to that period, a start of the cleaned text;
\* otherwise it is the whole cleaned text unchanged, with or without a period.
C10_TrimmedEndsWithPeriod ==
    LET cleaned == CleanText(sentence_in.text)
        parts == SplitDotSpace(cleaned)
        max == sentence_in.max_sentences
        out == sentence_out.value
        joined == Strip(JoinDotSpace(SubSeq(parts, 1, max)))
    IN  (sentence_out.done /\ cleaned # <<>> /\ max >= 1) =>
            /\ Len(SplitDotSpace(out)) <= max
            /\ Len(parts) > max =>
                  /\ EndsWithDot(out)
                  /\ out = (IF EndsWithDot(joined) THEN joined ELSE joined \o <<".">>)
                  /\ IsPrefix(SubSeq(out, 1, Len(out) - 1), cleaned)
                  /\ Len(out) <= Len(cleaned)
            /\ Len(parts) <= max =>
                  /\ out = cleaned
                  /\ EndsWithDot(out) <=> EndsWithDot(cleaned)

\* C10 witness: a text of more parts than max_sentences whose kept part got
\* its period appended
C10_Witness ==
    /\ sentence_out.done
    /\ sentence_in.max_sentences >= 2
    /\ Len(SplitDotSpace(CleanText(sentence_in.text))) > sentence_in.max_sentences
    /\ ~EndsWithDot(Strip(JoinDotSpace(SubSeq(SplitDotSpace(CleanText(sentence_in.text)),
                                              1, sentence_in.max_sentences))))
    /\ EndsWithDot(sentence_out.value)

----------------------------------------------------------------------------
(* Claims about build_embeddings_from_chunks, under SpecBuild *)

\* some character of the chunk is not whitespace
NonBlank(chunk) == \E i \in 1..Len(chunk) : chunk[i] \notin Whitespace

\* the (file, position) pairs of the mapping that hold a non-blank chunk
NonBlankPlaces ==
    {pl \in (1..Len(chunks_by_file)) \X (0..MaxChunks) :
        /\ pl[2] < Len(chunks_by_file[pl[1]].chunks)
        /\ NonBlank(chunks_by_file[pl[1]].chunks[pl[2] + 1])}

\* the place in the mapping of the file a metadata entry names
FilePlace(entry) ==
    CHOOSE f \in 1..Len(chunks_by_file) : chunks_by_file[f].filename = entry.filename

\* C6: row i and metadata entry i describe the same chunk; the metadata has
\* one entry per embedded text; entry i is the i-th non-blank chunk in
\* file-then-position order, with its position in its file as chunk_index;
\* no entry is blank; with no such chunk the result is the (0,0) matrix and
\* an empty metadata list, and the embedder is not called.
C6_RowsMatchMetadata ==
    built.done =>
        LET meta == built.metadata
            n_entries == Len(meta)
        IN  /\ n_entries = Cardinality(NonBlankPlaces)
            /\ Len(built.embeddings) = n_entries
            /\ Len(built.embedded_texts) = n_entries
            /\ \A i \in 1..n_entries :
                  /\ NonBlank(meta[i].text)
                  /\ \E f \in 1..Len(chunks_by_file) :
                        chunks_by_file[f].filename = meta[i].filename
                  /\ <<FilePlace(meta[i]), meta[i].chunk_index>> \in NonBlankPlaces
                  /\ chunks_by_file[FilePlace(meta[i])].chunks[meta[i].chunk_index + 1]
                         = meta[i].text
                  /\ built.embedded_texts[i] = meta[i].text
                  /\ built.embeddings[i] = EmbedText(meta[i].text)
            /\ \A i, j \in 1..n_entries :
                  i < j =>
                     \/ FilePlace(meta[i]) < FilePlace(meta[j])
                     \/ /\ FilePlace(meta[i]) = FilePlace(meta[j])
                        /\ meta[i].chunk_index < meta[j].chunk_index
            /\ built.encode_calls = (IF NonBlankPlaces = {} THEN 0 ELSE 1)
            /\ NonBlankPlaces = {} => built.embeddings = <<>> /\ meta = <<>>

\* C6 witness: an index built over two files in which a blank chunk was
\* skipped before a kept one
C6_Witness ==
    /\ built.done
    /\ Len(chunks_by_file) = 2
    /\ \E i \in 1..Len(built.metadata) : built.metadata[i].chunk_index = 1
    /\ \E f \in 1..Len(chunks_by_file) :
          /\ Len(chunks_by_file[f].chunks) = 2
          /\ ~NonBlank(chunks_by_file[f].chunks[1])
          /\ NonBlank(chunks_by_file[f].chunks[2])
    /\ Len(built.metadata) >= 2

----------------------------------------------------------------------------
(* Claims about retrieve_top_k and answer_question_extractive, under SpecAnswer *)

\* the score of row r (from 0) for the question asked
ScoreOfRow(r) == Dot(doc_embeddings[r + 1], EmbedText(asked.query))

\* the index holds N >= 1 rows and their N metadata entries
WellFormedIndex ==
    /\ MatrixSize(doc_embeddings) > 0
    /\ Len(metadata) = Len(doc_embeddings)

\* C3: the returned list is in the order of a full descending sort on score
\* that is stable on ties: of two returned rows of equal score the lower row
\* index comes first, and of a tie across the k-th position the lower row
\* index is the one selected.
C3_StableDescendingOrder ==
    (answered.done /\ ~answered.raised /\ WellFormedIndex /\ asked.k >= 1) =>
        LET top == answered.top_indices
            selected == {top[n] : n \in 1..Len(top)}
        IN  /\ \A i, j \in 1..Len(top) :
                  i < j =>
                     \/ ScoreOfRow(top[i]) > ScoreOfRow(top[j])
                     \/ ScoreOfRow(top[i]) = ScoreOfRow(top[j]) /\ top[i] < top[j]
            /\ \A r \in selected, u \in (0..(Len(doc_embeddings) - 1)) \ selected :
                  \/ ScoreOfRow(r) > ScoreOfRow(u)
                  \/ ScoreOfRow(r) = ScoreOfRow(u) /\ r < u

\* C4 as stated: for N >= 1 rows and every integer k the call returns without
\* error at most k records and at most N records, and min(k, N) for k >= 0.
C4_AtMostKRecords ==
    (answered.done /\ WellFormedIndex) =>
        /\ ~answered.raised
        /\ Len(answered.results) <= asked.k
        /\ Len(answered.results) <= Len(doc_embeddings)
        /\ asked.k >= 0 => Len(answered.results) = Min(asked.k, Len(doc_embeddings))

\* C4 as amended: the call returns without error at most N records; exactly
\* min(k, N) for k >= 0, hence at most k; and for k < 0 the N + k best rows
\* (none when N + k <= 0), which is more than k.
C4_ResultLength ==
    (answered.done /\ WellFormedIndex) =>
        /\ ~answered.raised
        /\ Len(answered.results) <= Len(doc_embeddings)
        /\ asked.k >= 0 => Len(answered.results) = Min(asked.k, Len(doc_embeddings))
        /\ asked.k < 0 => Len(answered.results) = Max(Len(doc_embeddings) + asked.k, 0)

\* C4 witness: a negative k that still returns records, and k > N
C4_Witness ==
    /\ answered.done /\ WellFormedIndex
    /\ asked.k < 0
    /\ Len(answered.results) = 2

\* C5: with an empty matrix or an empty metadata list retrieve_top_k returns
\* the empty list without embedding the query and without raising, and
\* answer_question_extractive returns no sources and the fixed "could not
\* find" answer, with the question asked.
C5_EmptyIndexAnswer ==
    (answered.done /\ (MatrixSize(doc_embeddings) = 0 \/ metadata = <<>>)) =>
        /\ ~answered.raised
        /\ answered.results = <<>>
        /\ answered.embed_query_calls = 0
        /\ answered.sources = <<>>
        /\ answered.answer =
              <<"I could not find any relevant information about this in the loaded documents. Please check that the PDFs contain information about this topic.">>
        /\ answered.question = asked.query

\* C5 witness: a question asked of rows that have no metadata
C5_Witness ==
    /\ answered.done
    /\ Len(doc_embeddings) >= 2 /\ MatrixSize(doc_embeddings) > 0
    /\ metadata = <<>>
    /\ asked.k > 0

\* the places where a line break occurs in s
NewlineAt(s) == {i \in 1..Len(s) : s[i] = "\n"}

\* s.split("\n")
RECURSIVE SplitLines(_)
SplitLines(s) ==
    IF NewlineAt(s) = {} THEN <<s>>
    ELSE LET i == CHOOSE j \in NewlineAt(s) : \A h \in NewlineAt(s) : j <= h
         IN  <<SubSeq(s, 1, i - 1)>> \o SplitLines(SubSeq(s, i + 1, Len(s)))

\* C9: for a non-empty retrieval result, sources is a 1:1 projection of it in
\* the same order, carrying score, chunk_index and the base name of the
\* filename, and the i-th bullet line of the answer, between the intro line
\* and the disclaimer, is "- From **{filename}**: {snippet}" of sources[i].
C9_SourcesProjectResults ==
    (answered.done /\ ~answered.raised /\ answered.results # <<>>) =>
        LET results == answered.results
            sources == answered.sources
            lines == SplitLines(answered.answer)
        IN  /\ Len(sources) = Len(results)
            /\ \A i \in 1..Len(results) :
                  /\ sources[i].score = results[i].score
                  /\ sources[i].chunk_index = results[i].chunk_index
                  /\ IsPrefix(sources[i].filename, Basename(results[i].filename))
                  /\ Len(sources[i].filename) = Len(Basename(results[i].filename))
                  /\ SlashAt(sources[i].filename) = {}
            /\ Len(lines) = Len(results) + 4
            /\ lines[1] = <<"Here is what the documents say about your question:">>
            /\ lines[2] = <<>>
            /\ \A i \in 1..Len(results) :
                  lines[i + 2] = <<"- From **">> \o sources[i].filename \o <<"**: ">>
                                     \o sources[i].snippet
            /\ lines[Len(lines) - 1] = <<>>
            /\ lines[Len(lines)] = DisclaimerLine

\* C9 witness: several results, one from a file with a directory part and one
\* whose text holds a line break
C9_Witness ==
    /\ answered.done /\ ~answered.raised
    /\ Len(answered.results) >= 2
    /\ \E i \in 1..Len(answered.results) : SlashAt(answered.results[i].filename) # {}
    /\ \E i \in 1..Len(answered.results) :
          /\ NewlineAt(answered.results[i].text) # {}
          /\ Len(answered.sources[i].snippet) = 3

----------------------------------------------------------------------------
(* Claims about the shell, under Spec *)

\* the files of the folder that build_index opens
OpenedBrochures ==
    {i \in 1..Len(brochures_dir.files) :
        IsBrochure(brochures_dir.files[i].name) /\ brochures_dir.files[i].opens}

\* the opened file is a PDF that PyPDF2 cannot parse
ExtractionFails(i) ==
    /\ Suffix(brochures_dir.files[i].name) = <<"p", "d", "f">>
    /\ ~brochures_dir.files[i].pdf_ok

\* the text an opened file holds, when its extraction does not fail
TextHeld(i) ==
    IF Suffix(brochures_dir.files[i].name) = <<"p", "d", "f">>
    THEN JoinLines(brochures_dir.files[i].pages)
    ELSE brochures_dir.files[i].content

\* C7: when the extraction of one document of a batch fails, the remaining
\* documents are still processed: the failing document is skipped and every
\* other document is extracted, chunked and indexed.
C7_FailingDocumentSkipped ==
    (/\ screen # "none"
     /\ \E i \in OpenedBrochures : ExtractionFails(i)
     /\ \E i \in OpenedBrochures : ~ExtractionFails(i) /\ NonBlank(TextHeld(i))) =>
        /\ screen # "exception"
        /\ \A i \in OpenedBrochures :
              (~ExtractionFails(i) /\ NonBlank(TextHeld(i))) =>
                  \E n \in 1..Len(session_state.metadata) :
                     session_state.metadata[n].filename = brochures_dir.files[i].name

\* C8: whenever the index built from the folder is empty or could not be
\* built, index_ready is False and the shell shows the "index is not ready"
\* warning instead of accepting questions; index_ready is True only when an
\* index of at least one chunk is held.
C8_ReadyOnlyWithChunks ==
    /\ session_state.index_ready => Len(session_state.metadata) >= 1
    /\ screen = "chat" => Len(session_state.metadata) >= 1
    /\ (screen \in {"warning", "chat"} /\ session_state.metadata = <<>>) =>
          (~session_state.index_ready /\ screen = "warning")

====
